---- MODULE Spec2Model ----
(***************************************************************************)
(* Model of src/platform.ts (ts-platform-aware): platform detection with a *)
(* simulated override, the tag registry, and the method, property and      *)
(* class guards.                                                            *)
(*                                                                          *)
(* The program modelled is                                                  *)
(*                                                                          *)
(*   class Base { inherited(arg) {...} }                                    *)
(*   [@platformSpecificClass(T)]                                            *)
(*   class Derived extends Base {                                           *)
(*     [@crossPlatformProperty()] [@platformSpecificProperty(T)]            *)
(*     p = <initialiser>;                                                   *)
(*     [@crossPlatformMethod()] [@platformSpecificMethod(T)]                *)
(*     m(arg) {...}                                                         *)
(*   }                                                                      *)
(*   function func(arg) {...}                                               *)
(*                                                                          *)
(* with every decorator optional and the two decorators of a member in      *)
(* either order, followed by any interleaving of setCurrentPlatform,        *)
(* getCurrentPlatform, new Derived(), calls, reads and writes.              *)
(* Decorators follow TypeScript's legacy (experimentalDecorators) protocol  *)
(* with field initialisers compiled to assignments in the constructor.      *)
(***************************************************************************)
EXTENDS Naturals, Sequences, FiniteSets, TLC

\* ------------------------------------------------------------------ bounds

\* Number of instances of Derived that may be constructed.
MaxInstances == 2

\* ------------------------------------------------------------- vocabulary

TargetPlatformType == {"web", "node"}
PlatformType == TargetPlatformType \cup {"unknown"}
SimulatedPlatformType == PlatformType \cup {"undefined"}

enabled == TRUE

\* Member names. "constructor" is the property every prototype owns.
MethodKeys == {"m"}
FieldKeys == {"p"}
Keys == {"p", "constructor", "m", "inherited"}
ClassName == "Derived"

\* The values the field initialiser of p may be ("undefined" is the JS
\* value), the value later assignments write, and the arguments and
\* receivers (0 is undefined) a callable is invoked with.
InitValues == {"a", "undefined"}
WriteValues == {"b"}
Args == {"x", "y"}
Instances == 1..MaxInstances
Receivers == Instances \cup {0}

VARIABLES
  simulatedPlatform,          \* the override, "undefined" when unset
  hasWindow,                  \* typeof window !== 'undefined'
  hasNodeVersion,             \* typeof global?.process?.versions?.node !== 'undefined'
  initialiser,                \* the initialiser of field p in the class body
  lastSetArg,                 \* argument of the latest setCurrentPlatform ("undefined" at load)
  crossPlatformProperties,    \* registry: set of <<className, key>>
  platformSpecificProperties, \* registry: set of <<className, key>>
  crossMarked,                \* original functions carrying crossPlatformSymbol
  descriptor,                 \* the method descriptors being decorated
  prototype,                  \* Derived.prototype
  applied,                    \* the decorators applied so far, <<decorator, key>>
  classPlatform,              \* "declaring", then "none" or the class guard's platform
  instances,                  \* the objects produced by new Derived()
  last                        \* the latest observable operation and its outcome

vars == <<simulatedPlatform, hasWindow, hasNodeVersion, initialiser, lastSetArg,
          crossPlatformProperties, platformSpecificProperties, crossMarked,
          descriptor, prototype, applied, classPlatform, instances, last>>

\* ------------------------------------------------------------------ values

\* A callable: the original function it ends in, the guard closures around
\* it (outermost first) and whether it carries platformSpecificSymbol.
\* A layer is [platform, by]: by = "method" (line 110), "func" (line 147)
\* or "class" (line 309).
NoFn == [orig |-> "none", layers |-> <<>>, spec |-> FALSE]
Original(name) == [orig |-> name, layers |-> <<>>, spec |-> FALSE]

\* A property slot of an object: absent, a data property holding a value,
\* a data property holding a callable, or an accessor pair closing over val.
Absent == [kind |-> "absent", val |-> "undefined", fn |-> NoFn, platform |-> "none", by |-> "none"]
Data(v) == [kind |-> "data", val |-> v, fn |-> NoFn, platform |-> "none", by |-> "none"]
Method(f) == [kind |-> "method", val |-> "function", fn |-> f, platform |-> "none", by |-> "none"]
Accessor(v, platform, by) == [kind |-> "accessor", val |-> v, fn |-> NoFn, platform |-> platform, by |-> by]

NoObject == [k \in Keys |-> Absent]

\* Base.prototype: one undecorated method.
BasePrototype == [k \in Keys |-> IF k = "inherited" THEN Method(Original("inherited")) ELSE Absent]

\* The result of an original function: it depends on the function, the
\* receiver it sees (0 is undefined) and its argument.
ResultOf(name, this, arg) == [f |-> name, this |-> this, a |-> arg]
NoResult == [f |-> "none", this |-> 0, a |-> "none"]

\* The latest observable operation: what was done, on which instance (or
\* receiver) and member, with which argument, how it ended, the value it
\* produced, how often it ran the original function and the receiver the
\* original function saw.
NoOp == [op |-> "none", inst |-> 0, key |-> "none", arg |-> "none",
         outcome |-> "none", val |-> "none", invoked |-> 0, seen |-> 0]

\* ----------------------------------------------------------- PlatformResolver

\* A plausible slip: the two detection tests in the other order.
getCurrentPlatform_NodeFirst ==
  IF simulatedPlatform # "undefined" THEN simulatedPlatform
  ELSE IF hasNodeVersion THEN "node"
  ELSE IF hasWindow THEN "web"
  ELSE "unknown"

getCurrentPlatform ==
  IF simulatedPlatform # "undefined" THEN simulatedPlatform
  ELSE IF hasWindow THEN "web"
  ELSE IF hasNodeVersion THEN "node"
  ELSE "unknown"

\* A plausible slip: an undetermined platform is let through.
assertPlatform_UnknownPasses(target) ==
  IF enabled /\ getCurrentPlatform # target /\ getCurrentPlatform # "unknown"
  THEN "PlatformMismatch" ELSE "ok"

assertPlatform(target) ==
  IF enabled /\ getCurrentPlatform # target THEN "PlatformMismatch" ELSE "ok"

\* ---------------------------------------------------------------- TagRegistry

addToCrossPlatformProperties(className, propertyKey) ==
  crossPlatformProperties \cup {<<className, propertyKey>>}

addToPlatformSpecificProperties(className, propertyKey) ==
  platformSpecificProperties \cup {<<className, propertyKey>>}

isInPlatformSpecificProperties(className, propertyKey) ==
  <<className, propertyKey>> \in platformSpecificProperties

isInCrossPlatformProperties(className, propertyKey) ==
  <<className, propertyKey>> \in crossPlatformProperties

\* value[crossPlatformSymbol] and value[platformSpecificSymbol] of a callable:
\* the cross mark sits on the original function object, not on a wrapper.
HasCrossPlatformSymbol(f) == f.layers = <<>> /\ f.orig \in crossMarked
\* A plausible slip: the wrapper of platformSpecificMethod is left unmarked.
HasPlatformSpecificSymbol_Unmarked(f) == FALSE

HasPlatformSpecificSymbol(f) == f.spec

\* ------------------------------------------------------------------- Init

\* The module as loaded under Node.js (no browser-like global, the version
\* marker present), before the classes are declared. SpecResolver below
\* ranges over every host.
Init ==
  /\ simulatedPlatform = "undefined"
  /\ hasWindow = FALSE
  /\ hasNodeVersion = TRUE
  /\ initialiser \in InitValues
  /\ lastSetArg = "undefined"
  /\ crossPlatformProperties = {}
  /\ platformSpecificProperties = {}
  /\ crossMarked = {}
  /\ descriptor = [k \in MethodKeys |-> Original(k)]
  /\ prototype = [k \in Keys |->
       IF k \in MethodKeys \cup {"constructor"} THEN Method(Original(k)) ELSE Absent]
  /\ applied = {}
  /\ classPlatform = "declaring"
  /\ instances = [i \in Instances |-> [alive |-> FALSE, own |-> NoObject]]
  /\ last = NoOp

\* ----------------------------------------------- setCurrentPlatform and reads

SetCurrentPlatform(target) ==
  /\ simulatedPlatform' = target
  /\ lastSetArg' = target
  /\ last' = [NoOp EXCEPT !.op = "set", !.arg = target,
                          !.val = IF simulatedPlatform' # "undefined" THEN "true" ELSE "false"]
  /\ UNCHANGED <<hasWindow, hasNodeVersion, initialiser, crossPlatformProperties,
                 platformSpecificProperties, crossMarked, descriptor, prototype,
                 applied, classPlatform, instances>>

GetCurrentPlatform ==
  /\ last' = [NoOp EXCEPT !.op = "get", !.val = getCurrentPlatform]
  /\ UNCHANGED <<simulatedPlatform, hasWindow, hasNodeVersion, initialiser, lastSetArg,
                 crossPlatformProperties, platformSpecificProperties, crossMarked,
                 descriptor, prototype, applied, classPlatform, instances>>

\* ------------------------------------------------------------ the decorators

Declaring == classPlatform = "declaring"

\* constructor[propertyKey][crossPlatformSymbol] = true: the function found on
\* the prototype is still the original one, the decorated descriptor being
\* installed only after the member's last decorator has run.
CrossPlatformMethod(propertyKey) ==
  /\ Declaring
  /\ <<"crossPlatformMethod", propertyKey>> \notin applied
  /\ applied' = applied \cup {<<"crossPlatformMethod", propertyKey>>}
  /\ crossMarked' = crossMarked \cup {prototype[propertyKey].fn.orig}
  /\ UNCHANGED <<simulatedPlatform, hasWindow, hasNodeVersion, initialiser, lastSetArg,
                 crossPlatformProperties, platformSpecificProperties,
                 descriptor, prototype, classPlatform, instances, last>>

\* The closure of lines 110-118 around originalMethod, marked at line 120.
MethodWrapper(platform, originalMethod) ==
  [orig |-> originalMethod.orig,
   layers |-> <<[platform |-> platform, by |-> "method"]>> \o originalMethod.layers,
   spec |-> TRUE]

PlatformSpecificMethod(platform, propertyKey) ==
  /\ Declaring
  /\ <<"platformSpecificMethod", propertyKey>> \notin applied
  /\ applied' = applied \cup {<<"platformSpecificMethod", propertyKey>>}
  /\ LET originalMethod == descriptor[propertyKey] IN
       descriptor' =
         IF ~enabled THEN descriptor
         ELSE IF HasCrossPlatformSymbol(descriptor[propertyKey]) THEN descriptor
         ELSE [descriptor EXCEPT ![propertyKey] = MethodWrapper(platform, originalMethod)]
  /\ UNCHANGED <<simulatedPlatform, hasWindow, hasNodeVersion, initialiser, lastSetArg,
                 crossPlatformProperties, platformSpecificProperties, crossMarked,
                 prototype, classPlatform, instances, last>>

CrossPlatformProperty(propertyKey) ==
  /\ Declaring
  /\ <<"crossPlatformProperty", propertyKey>> \notin applied
  /\ applied' = applied \cup {<<"crossPlatformProperty", propertyKey>>}
  /\ crossPlatformProperties' = addToCrossPlatformProperties(ClassName, propertyKey)
  /\ UNCHANGED <<simulatedPlatform, hasWindow, hasNodeVersion, initialiser, lastSetArg,
                 platformSpecificProperties, crossMarked, descriptor, prototype,
                 classPlatform, instances, last>>

\* The accessor pair is defined on the prototype and closes over one value.
PlatformSpecificProperty(platform, propertyKey) ==
  /\ Declaring
  /\ <<"platformSpecificProperty", propertyKey>> \notin applied
  /\ applied' = applied \cup {<<"platformSpecificProperty", propertyKey>>}
  /\ LET value == prototype[propertyKey].val
         className == ClassName
     IN IF ~enabled \/ isInCrossPlatformProperties(className, propertyKey)
        THEN UNCHANGED <<platformSpecificProperties, prototype>>
        ELSE /\ platformSpecificProperties' =
                  addToPlatformSpecificProperties(className, propertyKey)
             /\ prototype' = [prototype EXCEPT
                  ![propertyKey] = Accessor(value, platform, "property")]
  /\ UNCHANGED <<simulatedPlatform, hasWindow, hasNodeVersion, initialiser, lastSetArg,
                 crossPlatformProperties, crossMarked, descriptor,
                 classPlatform, instances, last>>

\* The decorated method descriptors are installed on the prototype when the
\* members' decorators have run.
InstallDescriptors ==
  [k \in Keys |-> IF k \in MethodKeys THEN Method(descriptor[k]) ELSE prototype[k]]

\* A class without a class decorator (README examples 1 and 2).
DefineClass ==
  /\ Declaring
  /\ classPlatform' = "none"
  /\ prototype' = InstallDescriptors
  /\ UNCHANGED <<simulatedPlatform, hasWindow, hasNodeVersion, initialiser, lastSetArg,
                 crossPlatformProperties, platformSpecificProperties, crossMarked,
                 descriptor, applied, instances, last>>

\* The class decorator replaces the constructor by f, which calls construct.
PlatformSpecificClass(platform) ==
  /\ Declaring
  /\ classPlatform' = IF enabled THEN platform ELSE "none"
  /\ prototype' = InstallDescriptors
  /\ UNCHANGED <<simulatedPlatform, hasWindow, hasNodeVersion, initialiser, lastSetArg,
                 crossPlatformProperties, platformSpecificProperties, crossMarked,
                 descriptor, applied, instances, last>>

\* ------------------------------------------------------- objects and lookup

\* Object.getOwnPropertyNames, in property creation order.
InstanceKeyOrder == <<"p", "constructor", "m", "inherited">>
PrototypeKeyOrder == <<"constructor", "m", "p", "inherited">>

OwnPropertyNames(object, order) ==
  LET Owned(k) == object[k].kind # "absent" IN SelectSeq(order, Owned)

\* instance[key]: the own property, else Derived.prototype's, else Base.prototype's.
Lookup(own, proto, key) ==
  IF own[key].kind # "absent" THEN own[key]
  ELSE IF proto[key].kind # "absent" THEN proto[key]
  ELSE BasePrototype[key]

\* The read accessor of platformSpecificProperty (lines 249-257).
PropertyGetter(platform) ==
  IF enabled /\ platform # getCurrentPlatform THEN "PlatformMismatch" ELSE "ok"

\* The read accessor installed by the class guard (lines 325-332).
ClassGetter(platform) == assertPlatform(platform)

\* A plausible slip: the write accessor checks the platform as the read
\* accessor does and drops the value on a mismatch.
WriteAccessor_Gated(slot, newValue) ==
  IF enabled /\ slot.platform # getCurrentPlatform THEN slot
  ELSE [slot EXCEPT !.val = newValue]

\* The write accessors (lines 258-260 and 333-336) store unconditionally.
WriteAccessor(slot, newValue) == [slot EXCEPT !.val = newValue]

\* Reading a slot: accessors run their read accessor first.
GetOutcome(slot) ==
  IF slot.kind # "accessor" THEN "ok"
  ELSE IF slot.by = "property" THEN PropertyGetter(slot.platform)
  ELSE ClassGetter(slot.platform)

\* A plausible slip: the original is applied first and the platform asserted
\* afterwards.
Invoke_ApplyThenCheck(f, this, arg) ==
  [outcome |-> IF \E n \in 1..Len(f.layers) : assertPlatform(f.layers[n].platform) # "ok"
               THEN "PlatformMismatch" ELSE "ok",
   invoked |-> 1,
   result |-> IF \E n \in 1..Len(f.layers) : assertPlatform(f.layers[n].platform) # "ok"
              THEN NoResult ELSE ResultOf(f.orig, this, arg)]

\* Invoking a callable with a receiver and an argument: every guard closure
\* asserts its platform and only then applies what it wraps. The closure of
\* makePlatformSpecific is an arrow function that calls originalFunc(...args),
\* so what it wraps sees no receiver.
RECURSIVE Invoke(_, _, _)
Invoke(f, this, arg) ==
  IF f.layers = <<>>
  THEN [outcome |-> "ok", invoked |-> 1, result |-> ResultOf(f.orig, this, arg)]
  ELSE LET layer == Head(f.layers) IN
       IF assertPlatform(layer.platform) # "ok"
       THEN [outcome |-> "PlatformMismatch", invoked |-> 0, result |-> NoResult]
       ELSE Invoke([f EXCEPT !.layers = Tail(f.layers)],
                   IF layer.by = "func" THEN 0 ELSE this, arg)

\* ------------------------------------------------------------ the class guard

\* Reflect.construct(constructor, args): the field initialiser this.p = value
\* is an assignment, so it runs the write accessor when the prototype has one.
ReflectConstruct(value) ==
  IF prototype["p"].kind = "accessor"
  THEN [own |-> NoObject,
        proto |-> [prototype EXCEPT !["p"] = WriteAccessor(prototype["p"], value)]]
  ELSE [own |-> [NoObject EXCEPT !["p"] = Data(value)], proto |-> prototype]

\* The closure of lines 309-318 around originalMethod; it carries no marker.
ClassMethodWrapper(platform, originalMethod) ==
  [orig |-> originalMethod.orig,
   layers |-> <<[platform |-> platform, by |-> "class"]>> \o originalMethod.layers,
   spec |-> FALSE]

\* One iteration of the loop of lines 287-341.
RetrofitKey(own, proto, platform, key) ==
  IF isInCrossPlatformProperties(ClassName, key)
       \/ isInPlatformSpecificProperties(ClassName, key)
  THEN [outcome |-> "ok", own |-> own]
  ELSE LET slot == Lookup(own, proto, key) IN
       IF GetOutcome(slot) # "ok"
       THEN [outcome |-> GetOutcome(slot), own |-> own]
       ELSE IF slot.kind # "method" /\ slot.val = "undefined"
       THEN [outcome |-> "TypeError", own |-> own]
       ELSE LET alreadyDecorated ==
                  /\ slot.kind = "method"
                  /\ (HasCrossPlatformSymbol(slot.fn) \/ HasPlatformSpecificSymbol(slot.fn))
            IN IF alreadyDecorated THEN [outcome |-> "ok", own |-> own]
               ELSE IF slot.kind = "method"
               THEN [outcome |-> "ok",
                     own |-> [own EXCEPT ![key] = Method(ClassMethodWrapper(platform, slot.fn))]]
               ELSE [outcome |-> "ok",
                     own |-> [own EXCEPT ![key] = Accessor(slot.val, platform, "class")]]

RECURSIVE RetrofitAll(_, _, _, _)
RetrofitAll(own, proto, platform, allProperties) ==
  IF allProperties = <<>> THEN [outcome |-> "ok", own |-> own]
  ELSE LET r == RetrofitKey(own, proto, platform, Head(allProperties)) IN
       IF r.outcome # "ok" THEN r
       ELSE RetrofitAll(r.own, proto, platform, Tail(allProperties))

\* construct(constructor, args) of lines 276-345.
construct(platform) ==
  LET instance == ReflectConstruct(initialiser)
      instanceProperties == OwnPropertyNames(instance.own, InstanceKeyOrder)
      prototypeProperties == OwnPropertyNames(instance.proto, PrototypeKeyOrder)
      allProperties == instanceProperties \o prototypeProperties
      r == RetrofitAll(instance.own, instance.proto, platform, allProperties)
  IN [outcome |-> r.outcome, own |-> r.own, proto |-> instance.proto]

\* new Derived(): through f and construct when the class is guarded.
Construct(i) ==
  /\ ~Declaring
  /\ ~instances[i].alive
  /\ IF i = 1 THEN TRUE ELSE instances[i - 1].alive
  /\ LET r == IF classPlatform = "none"
              THEN [outcome |-> "ok"] @@ ReflectConstruct(initialiser)
              ELSE construct(classPlatform)
     IN /\ prototype' = r.proto
        /\ instances' = IF r.outcome = "ok"
                        THEN [instances EXCEPT ![i] = [alive |-> TRUE, own |-> r.own]]
                        ELSE instances
        /\ last' = [NoOp EXCEPT !.op = "construct", !.inst = i,
                                !.outcome = r.outcome]
  /\ UNCHANGED <<simulatedPlatform, hasWindow, hasNodeVersion, initialiser, lastSetArg,
                 crossPlatformProperties, platformSpecificProperties, crossMarked,
                 descriptor, applied, classPlatform>>

\* ------------------------------------------------------------ using instances

CallableKeys == {"m", "inherited"}

\* instance.key(arg): how the call ends does not depend on the argument.
Call(i, key) ==
  /\ instances[i].alive
  /\ LET slot == Lookup(instances[i].own, prototype, key)
         r == Invoke(slot.fn, i, "x")
     IN /\ slot.kind = "method"
        /\ last' = [NoOp EXCEPT !.op = "call", !.inst = i, !.key = key,
                                !.outcome = r.outcome, !.invoked = r.invoked,
                                !.seen = r.result.this]
  /\ UNCHANGED <<simulatedPlatform, hasWindow, hasNodeVersion, initialiser, lastSetArg,
                 crossPlatformProperties, platformSpecificProperties, crossMarked,
                 descriptor, prototype, applied, classPlatform, instances>>

\* instance.key
Read(i, key) ==
  /\ instances[i].alive
  /\ LET slot == Lookup(instances[i].own, prototype, key)
         outcome == GetOutcome(slot)
     IN last' = [NoOp EXCEPT !.op = "read", !.inst = i, !.key = key,
                             !.outcome = outcome,
                             !.val = IF outcome = "ok" THEN slot.val ELSE "none"]
  /\ UNCHANGED <<simulatedPlatform, hasWindow, hasNodeVersion, initialiser, lastSetArg,
                 crossPlatformProperties, platformSpecificProperties, crossMarked,
                 descriptor, prototype, applied, classPlatform, instances>>

\* instance.key = newValue
Write(i, key, newValue) ==
  /\ instances[i].alive
  /\ LET own == instances[i].own
     IN /\ IF own[key].kind = "absent" /\ prototype[key].kind = "accessor"
           THEN /\ prototype' = [prototype EXCEPT
                     ![key] = WriteAccessor(prototype[key], newValue)]
                /\ UNCHANGED instances
           ELSE /\ instances' = [instances EXCEPT ![i].own[key] =
                     IF own[key].kind = "accessor"
                     THEN WriteAccessor(own[key], newValue)
                     ELSE Data(newValue)]
                /\ UNCHANGED prototype
        /\ last' = [NoOp EXCEPT !.op = "write", !.inst = i, !.key = key,
                                !.outcome = "ok", !.val = newValue]
  /\ UNCHANGED <<simulatedPlatform, hasWindow, hasNodeVersion, initialiser, lastSetArg,
                 crossPlatformProperties, platformSpecificProperties, crossMarked,
                 descriptor, applied, classPlatform>>

\* ------------------------------------------------------- makePlatformSpecific

\* The arrow function of lines 147-155 around originalFunc.
FuncWrapper(platform, originalFunc) ==
  [orig |-> originalFunc.orig,
   layers |-> <<[platform |-> platform, by |-> "func"]>> \o originalFunc.layers,
   spec |-> FALSE]

makePlatformSpecific(platform, func) ==
  IF ~enabled THEN func ELSE FuncWrapper(platform, func)

\* g = makePlatformSpecific(platform, func), then g(arg) as a plain call
\* (this = 0) or as instance.g(arg) after instance.g = g, on the first
\* instance. How the call ends does not depend on the argument.
FuncReceivers == {0, 1}

CallPlatformSpecific(platform, this) ==
  /\ IF this = 0 THEN TRUE ELSE instances[this].alive
  /\ LET g == makePlatformSpecific(platform, Original("func"))
         r == Invoke(g, this, "x")
     IN last' = [NoOp EXCEPT !.op = "func", !.inst = this, !.key = platform,
                             !.outcome = r.outcome, !.invoked = r.invoked,
                             !.seen = r.result.this]
  /\ UNCHANGED <<simulatedPlatform, hasWindow, hasNodeVersion, initialiser, lastSetArg,
                 crossPlatformProperties, platformSpecificProperties, crossMarked,
                 descriptor, prototype, applied, classPlatform, instances>>

\* ------------------------------------------------------------ specification

Next ==
  \/ \E target \in SimulatedPlatformType : SetCurrentPlatform(target)
  \/ GetCurrentPlatform
  \/ \E k \in MethodKeys : CrossPlatformMethod(k)
  \/ \E t \in TargetPlatformType, k \in MethodKeys : PlatformSpecificMethod(t, k)
  \/ \E k \in FieldKeys : CrossPlatformProperty(k)
  \/ \E t \in TargetPlatformType, k \in FieldKeys : PlatformSpecificProperty(t, k)
  \/ DefineClass
  \/ \E t \in TargetPlatformType : PlatformSpecificClass(t)
  \/ \E i \in Instances : Construct(i)
  \/ \E i \in Instances, k \in CallableKeys : Call(i, k)
  \/ \E i \in Instances, k \in FieldKeys : Read(i, k)
  \/ \E i \in Instances, k \in FieldKeys, v \in WriteValues : Write(i, k, v)
  \/ \E t \in TargetPlatformType, this \in FuncReceivers : CallPlatformSpecific(t, this)

Spec == Init /\ [][Next]_vars

\* ------------------------------------------- the resolver's other callers

\* assertPlatform(target) called directly, with the default message.
AssertPlatform(target) ==
  /\ last' = [NoOp EXCEPT !.op = "assert", !.key = target, !.outcome = assertPlatform(target)]
  /\ UNCHANGED <<simulatedPlatform, hasWindow, hasNodeVersion, initialiser, lastSetArg,
                 crossPlatformProperties, platformSpecificProperties, crossMarked,
                 descriptor, prototype, applied, classPlatform, instances>>

isWeb == getCurrentPlatform = "web"

isNode == getCurrentPlatform = "node"

IsWebOrNode ==
  /\ last' = [NoOp EXCEPT !.op = "is",
                          !.val = IF isWeb THEN "web" ELSE IF isNode THEN "node" ELSE "neither"]
  /\ UNCHANGED <<simulatedPlatform, hasWindow, hasNodeVersion, initialiser, lastSetArg,
                 crossPlatformProperties, platformSpecificProperties, crossMarked,
                 descriptor, prototype, applied, classPlatform, instances>>

\* platformSpecificCode(targetPlatform, code): code runs on a match only.
PlatformSpecificCode(targetPlatform) ==
  /\ last' = [NoOp EXCEPT !.op = "code", !.key = targetPlatform, !.outcome = "ok",
                          !.invoked = IF ~enabled \/ getCurrentPlatform = targetPlatform
                                      THEN 1 ELSE 0]
  /\ UNCHANGED <<simulatedPlatform, hasWindow, hasNodeVersion, initialiser, lastSetArg,
                 crossPlatformProperties, platformSpecificProperties, crossMarked,
                 descriptor, prototype, applied, classPlatform, instances>>

\* switchPlatform(map): map is the set of platforms it has a function for.
SwitchPlatform(map) ==
  /\ last' = IF getCurrentPlatform \notin map
             THEN [NoOp EXCEPT !.op = "switch", !.outcome = "NoHandlerForPlatform"]
             ELSE [NoOp EXCEPT !.op = "switch", !.outcome = "ok",
                               !.val = getCurrentPlatform, !.invoked = 1]
  /\ UNCHANGED <<simulatedPlatform, hasWindow, hasNodeVersion, initialiser, lastSetArg,
                 crossPlatformProperties, platformSpecificProperties, crossMarked,
                 descriptor, prototype, applied, classPlatform, instances>>

\* Every host: with or without a browser-like global, with or without the
\* runtime version marker. (The module's load-time call at line 466 reads
\* the platform, so in a loaded module detection has returned.)
InitResolver ==
  /\ simulatedPlatform = "undefined"
  /\ hasWindow \in BOOLEAN
  /\ hasNodeVersion \in BOOLEAN
  /\ initialiser = "a"
  /\ lastSetArg = "undefined"
  /\ crossPlatformProperties = {}
  /\ platformSpecificProperties = {}
  /\ crossMarked = {}
  /\ descriptor = [k \in MethodKeys |-> Original(k)]
  /\ prototype = [k \in Keys |->
       IF k \in MethodKeys \cup {"constructor"} THEN Method(Original(k)) ELSE Absent]
  /\ applied = {}
  /\ classPlatform = "declaring"
  /\ instances = [i \in Instances |-> [alive |-> FALSE, own |-> NoObject]]
  /\ last = NoOp

NextResolver ==
  \/ \E target \in SimulatedPlatformType : SetCurrentPlatform(target)
  \/ GetCurrentPlatform
  \/ \E target \in TargetPlatformType : AssertPlatform(target)
  \/ IsWebOrNode
  \/ \E target \in TargetPlatformType : PlatformSpecificCode(target)
  \/ \E map \in SUBSET PlatformType : SwitchPlatform(map)

SpecResolver == InitResolver /\ [][NextResolver]_vars

\* ------------------------------------------------------------------ claims

\* What instance i shows for member key.
MemberSlot(i, key) == Lookup(instances[i].own, prototype, key)

\* The platform in force as the claims describe it: the argument of the
\* latest setCurrentPlatform if it was a platform, else what the host shows.
DetectedPlatform ==
  IF hasWindow THEN "web" ELSE IF hasNodeVersion THEN "node" ELSE "unknown"

PlatformInForce ==
  IF lastSetArg \in PlatformType THEN lastSetArg ELSE DetectedPlatform

OutcomeFor(target) == IF PlatformInForce = target THEN "ok" ELSE "PlatformMismatch"

\* C1: a method wrapped by platformSpecificMethod(T), a property wrapped by
\* platformSpecificProperty(T) and a method or property retrofitted by
\* platformSpecificClass(T) succeed exactly when the platform in force at the
\* call or read is T, and fail with a platform mismatch otherwise, whatever
\* the platform was when the member was decorated or the instance built.
C1_GuardedSucceedsIffPlatformMatches ==
  /\ \A i \in Instances : instances[i].alive =>
       /\ \A k \in CallableKeys : \A a \in Args :
            LET f == MemberSlot(i, k).fn IN
            f.layers # <<>> =>
              Invoke(f, i, a).outcome = OutcomeFor(Head(f.layers).platform)
       /\ \A k \in FieldKeys :
            LET slot == MemberSlot(i, k) IN
            slot.kind = "accessor" => GetOutcome(slot) = OutcomeFor(slot.platform)
  /\ last.op = "call" /\ MemberSlot(last.inst, last.key).fn.layers # <<>> =>
       last.outcome = OutcomeFor(Head(MemberSlot(last.inst, last.key).fn.layers).platform)
  /\ last.op = "read" /\ MemberSlot(last.inst, last.key).kind = "accessor" =>
       last.outcome = OutcomeFor(MemberSlot(last.inst, last.key).platform)

\* A method decorated for one platform has just been rejected under the
\* simulated platform "unknown".
C1_Witness ==
  /\ last.op = "call" /\ last.key = "m" /\ last.outcome = "PlatformMismatch"
  /\ simulatedPlatform = "unknown"
  /\ MemberSlot(last.inst, "m").fn.spec

\* The tags requested for a member of Derived.
MarkedCrossPlatform(key) ==
  \/ <<"crossPlatformMethod", key>> \in applied
  \/ <<"crossPlatformProperty", key>> \in applied

MarkedPlatformSpecific(key) ==
  \/ <<"platformSpecificMethod", key>> \in applied
  \/ <<"platformSpecificProperty", key>> \in applied

\* C2: a member marked cross-platform (crossPlatformMethod on a method,
\* crossPlatformProperty on a property) never fails with a platform error
\* when called, read or written, on any platform, also on instances built
\* by the constructor of a platformSpecificClass.
C2_CrossPlatformNeverFails ==
  last.op \in {"call", "read", "write"} /\ MarkedCrossPlatform(last.key) =>
    last.outcome = "ok"

\* C3: writing a guarded property succeeds on every platform and stores the
\* value, for a property wrapped by platformSpecificProperty and for one
\* retrofitted by platformSpecificClass alike; a read that is let through
\* returns the stored value, so the value written on a mismatching platform
\* is the one a read on the declared platform returns.
C3_WritesAreNeverGated ==
  /\ last.op = "write" =>
       /\ last.outcome = "ok"
       /\ MemberSlot(last.inst, last.key).val = last.val
  /\ last.op = "read" /\ last.outcome = "ok" =>
       last.val = MemberSlot(last.inst, last.key).val

\* A guarded property has just been written on a platform its read accessor
\* rejects, and it holds the value written, which is not its initial value.
C3_Witness ==
  /\ last.op = "write" /\ last.val = "b" /\ initialiser = "a"
  /\ MemberSlot(last.inst, last.key).kind = "accessor"
  /\ GetOutcome(MemberSlot(last.inst, last.key)) = "PlatformMismatch"
  /\ MemberSlot(last.inst, last.key).val = "b"

\* C4: whenever both a cross-platform tag and a platform-specific tag were
\* requested for a member, in either order, the member is exempt: its call
\* or read succeeds on every platform and it carries no platform check,
\* neither from its own decorator nor from the class guard.
C4_CrossPlatformWins ==
  last.op \in {"call", "read"}
      /\ MarkedCrossPlatform(last.key) /\ MarkedPlatformSpecific(last.key) =>
    /\ last.outcome = "ok"
    /\ MemberSlot(last.inst, last.key).fn.layers = <<>>
    /\ MemberSlot(last.inst, last.key).kind # "accessor"

\* C5: constructing through a platformSpecificClass constructor never fails,
\* whatever the platform and whatever the members' values.
C5_ConstructionNeverFails ==
  last.op = "construct" /\ classPlatform \in TargetPlatformType =>
    last.outcome = "ok"

\* C6: a class decorated with platformSpecificClass(T) is instantiated only
\* on T: an instantiation attempted on another platform is rejected.
C6_InstantiationOnlyOnDeclaredPlatform ==
  last.op = "construct" /\ classPlatform \in TargetPlatformType
      /\ PlatformInForce # classPlatform =>
    last.outcome # "ok"

\* C7: getCurrentPlatform returns the argument of the latest
\* setCurrentPlatform if that was a platform, and otherwise (never set, or
\* cleared last) what the host shows: web with a browser-like global, else
\* node with the runtime version marker, else unknown. The override is one
\* value, and setCurrentPlatform returns true exactly when one is active.
C7_LastOverrideElseDetection ==
  /\ getCurrentPlatform = PlatformInForce
  /\ last.op = "get" => last.val = PlatformInForce
  /\ last.op = "set" =>
       /\ last.arg = lastSetArg
       /\ (last.val = "true") = (last.arg \in PlatformType)
       /\ (last.val = "true") = (simulatedPlatform # "undefined")

\* The override has just been cleared on a host that has both the
\* browser-like global and the version marker: the platform is web again.
C7_Witness ==
  /\ last.op = "set" /\ last.arg = "undefined" /\ last.val = "false"
  /\ hasWindow /\ hasNodeVersion /\ getCurrentPlatform = "web"

\* C8: in a class wrapped by platformSpecificClass(T2), a method wrapped by
\* platformSpecificMethod(T1) and a property wrapped by
\* platformSpecificProperty(T1) are skipped by the class-level pass: they keep
\* their one guard, and succeed exactly when the platform in force is T1.
C8_FirstGuardWins ==
  classPlatform \in TargetPlatformType =>
    \A i \in Instances : instances[i].alive =>
      /\ \A k \in MethodKeys :
           prototype[k].fn.spec =>
             /\ MemberSlot(i, k) = prototype[k]
             /\ Len(MemberSlot(i, k).fn.layers) = 1
             /\ \A a \in Args :
                  Invoke(MemberSlot(i, k).fn, i, a).outcome
                    = OutcomeFor(prototype[k].fn.layers[1].platform)
      /\ \A k \in FieldKeys :
           prototype[k].kind = "accessor" =>
             /\ MemberSlot(i, k) = prototype[k]
             /\ GetOutcome(MemberSlot(i, k)) = OutcomeFor(prototype[k].platform)
      /\ last.op = "call" /\ last.key \in MethodKeys /\ prototype[last.key].fn.spec =>
           last.outcome = OutcomeFor(prototype[last.key].fn.layers[1].platform)
      /\ last.op = "read" /\ prototype[last.key].kind = "accessor" =>
           last.outcome = OutcomeFor(prototype[last.key].platform)

\* A method decorated for web has just succeeded on web on an instance of a
\* class guarded for node.
C8_Witness ==
  /\ classPlatform = "node"
  /\ last.op = "call" /\ last.key = "m" /\ last.outcome = "ok"
  /\ prototype["m"].fn.spec /\ prototype["m"].fn.layers[1].platform = "web"
  /\ PlatformInForce = "web"

\* The members visible on an instance, and whether the class-level pass is
\* to leave one alone: registered under the class, or its declared value
\* carrying a marker.
VisibleKeys(i) == {k \in Keys : MemberSlot(i, k).kind # "absent"}

Registered(key) ==
  \/ <<ClassName, key>> \in crossPlatformProperties
  \/ <<ClassName, key>> \in platformSpecificProperties

DeclaredSlot(key) == Lookup(NoObject, prototype, key)

CarriesMarker(key) ==
  /\ DeclaredSlot(key).kind = "method"
  /\ (DeclaredSlot(key).fn.orig \in crossMarked \/ DeclaredSlot(key).fn.spec)

\* C9: after construction by a platformSpecificClass(T) constructor every
\* member visible on the instance (own field, method of the class's own
\* prototype, member inherited from an ancestor) that is neither registered
\* nor carrying a marker is guarded for T: its call or read fails when the
\* platform is not T.
C9_EveryVisibleMemberGuarded ==
  last.op \in {"call", "read"} /\ classPlatform \in TargetPlatformType
      /\ last.key \in VisibleKeys(last.inst)
      /\ ~Registered(last.key) /\ ~CarriesMarker(last.key)
      /\ PlatformInForce # classPlatform =>
    last.outcome = "PlatformMismatch"

\* The guarded callables at hand: the members of the live instances and the
\* functions makePlatformSpecific returns.
GuardedCallables ==
  {MemberSlot(i, k).fn : i \in {j \in Instances : instances[j].alive}, k \in CallableKeys}
    \cup {makePlatformSpecific(t, Original("func")) : t \in TargetPlatformType}

Passes(f) == \A n \in 1..Len(f.layers) : PlatformInForce = f.layers[n].platform

\* C10 as stated: a guarded callable (platformSpecificMethod,
\* makePlatformSpecific, class-level wrapper) checks the platform first; when
\* the check passes the original runs exactly once with the original receiver
\* and arguments and its result is returned unchanged; when it fails the
\* original does not run.
C10_CheckThenApplyWithReceiver ==
  last.op \in {"call", "func"} =>
    IF last.outcome = "ok"
    THEN last.invoked = 1 /\ last.seen = last.inst
    ELSE last.outcome = "PlatformMismatch" /\ last.invoked = 0

\* C10 as amended: the same, except that the function returned by
\* makePlatformSpecific applies the original to the original arguments
\* without a receiver; the method and class-level wrappers pass the receiver.
C10_CheckThenApply ==
  /\ \A f \in GuardedCallables : \A this \in Receivers : \A a \in Args :
       f.layers # <<>> =>
         LET r == Invoke(f, this, a)
             seen == IF \E n \in 1..Len(f.layers) : f.layers[n].by = "func"
                     THEN 0 ELSE this
         IN IF Passes(f)
            THEN r.outcome = "ok" /\ r.invoked = 1 /\ r.result = ResultOf(f.orig, seen, a)
            ELSE r.outcome = "PlatformMismatch" /\ r.invoked = 0 /\ r.result = NoResult
  /\ last.op \in {"call", "func"} =>
       /\ last.invoked = IF last.outcome = "ok" THEN 1 ELSE 0
       /\ last.outcome = "ok" => last.seen = IF last.op = "func" THEN 0 ELSE last.inst

\* A class-level method wrapper has just let a call through and run the
\* original once.
C10_Witness ==
  /\ last.op = "call" /\ last.outcome = "ok" /\ last.invoked = 1
  /\ MemberSlot(last.inst, last.key).fn.layers # <<>>
  /\ MemberSlot(last.inst, last.key).fn.layers[1].by = "class"

\* The value a permitted read of instance.key returns.
StoredValue(i, key) == MemberSlot(i, key).val

\* C11: guarded property values are per-instance. For two distinct instances
\* a and b of the class and a guarded property p (wrapped by
\* platformSpecificProperty or retrofitted by platformSpecificClass), a write
\* through a, by an assignment a.p = v or by a's own construction, leaves
\* unchanged the value a later permitted read of b.p returns.
C11_GuardedValuesArePerInstance ==
  [][\A a \in Instances : \A b \in Instances \ {a} : \A p \in FieldKeys :
       /\ last'.op \in {"write", "construct"} /\ last'.inst = a
       /\ last'.op = "write" => last'.key = p
       /\ instances[b].alive
       /\ MemberSlot(b, p).kind = "accessor"
       => StoredValue(b, p)' = StoredValue(b, p)]_vars

====
